---- MODULE Spec2Model ----
(***************************************************************************)
(* A model of net/ieee802154/ieee802154_conn.c: the table of IEEE 802.15.4 *)
(* socket connections (one static array, a free queue and an active queue  *)
(* threaded through the array by intrusive doubly linked nodes), the       *)
(* lookup of the connection an inbound frame belongs to, and the cursor    *)
(* over the active connections.                                            *)
(*                                                                         *)
(* The queue primitives (dq_init, dq_addlast, dq_remfirst, dq_rem), the    *)
(* address comparison macros, the layout of an address record and          *)
(* DEBUGASSERT live in other files of the repository; they are modelled at *)
(* pointer/byte level beside the code of this file that calls them.        *)
(***************************************************************************)
EXTENDS Integers, Sequences, FiniteSets, TLC

(***************************************************************************)
(* Bounds of the model.                                                    *)
(***************************************************************************)
\* Capacity of the table (a build-time configuration value).
CONFIG_NET_IEEE802154_NCONNS == 3

\* The largest reference count the socket layer takes on one connection.
MaxCrefs == 1

\* The largest number of bound, active connections a lookup is tried on.
MaxActive == 2

(***************************************************************************)
(* Values.                                                                 *)
(***************************************************************************)
NULL == -1

Slots == 0 .. (CONFIG_NET_IEEE802154_NCONNS - 1)

IEEE802154_SADDRSIZE == 2
IEEE802154_EADDRSIZE == 8

\* enum ieee802154_addrmode_e; RESERVED stands for every other value of the field.
IEEE802154_ADDRMODE_NONE == "NONE"
IEEE802154_ADDRMODE_SHORT == "SHORT"
IEEE802154_ADDRMODE_EXTENDED == "EXTENDED"
ADDRMODE_RESERVED == "RESERVED"

ZeroBytes(n) == [i \in 1 .. n |-> 0]

\* Short addresses 0x1234 and 0x5678, byte by byte.
SA == <<18, 52>>
SB == <<86, 120>>

\* Extended addresses.  EB is SA followed by the first six bytes of EA.
EA == <<1, 2, 3, 4, 5, 6, 7, 8>>
EB == <<18, 52, 1, 2, 3, 4, 5, 6>>

\* struct ieee802154_saddr_s as zeroed static storage holds it.
ZeroSaddr ==
    [s_mode |-> IEEE802154_ADDRMODE_NONE,
     s_saddr |-> ZeroBytes(IEEE802154_SADDRSIZE),
     s_eaddr |-> ZeroBytes(IEEE802154_EADDRSIZE)]

\* struct ieee802154_conn_s as zeroed static storage holds it.
ZeroConn ==
    [flink |-> NULL, blink |-> NULL,
     laddr |-> ZeroSaddr, raddr |-> ZeroSaddr, crefs |-> 0]

\* An empty dq_queue_t.
EmptyQueue == [head |-> NULL, tail |-> NULL]

(***************************************************************************)
(* State.                                                                  *)
(***************************************************************************)
VARIABLES
    g_ieee802154_connections,         \* the array of connection structures
    g_free_ieee802154_connections,    \* dq_queue_t: head and tail
    g_active_ieee802154_connections,  \* dq_queue_t: head and tail
    g_free_sem,                       \* count of the semaphore
    config_debug_assertions,          \* whether the build compiles DEBUGASSERT in
    started,                          \* ieee802154_initialize() has run
    halted,                           \* an assertion has stopped the system
    ret,                              \* the last call: operation, argument, result
    visited,                          \* results of the traversal in progress
    handles,                          \* handles handed out and not yet released, in order
    run,                              \* where the run of allocations since initialize stands
    pc,                               \* each thread's place in the call it is making
    tconn,                            \* each thread's local variable conn
    g_netlock,                        \* the thread that holds the network lock, if any
    eintr                             \* waits on the semaphore that a signal has interrupted

vars ==
    <<g_ieee802154_connections, g_free_ieee802154_connections,
      g_active_ieee802154_connections, g_free_sem, config_debug_assertions,
      started, halted, ret, visited, handles, run, pc, tconn, g_netlock, eintr>>

\* The state of the threads, which the calls made one at a time leave alone.
tvars == <<pc, tconn, g_netlock, eintr>>

\* The memory the list operations work on, as one value.
Mem ==
    [conns |-> g_ieee802154_connections,
     free |-> g_free_ieee802154_connections,
     active |-> g_active_ieee802154_connections]

(***************************************************************************)
(* The queue primitives, on a memory m = [conns, free, active]; q names    *)
(* the queue ("free" or "active").  Assignments are applied in the order   *)
(* the C code makes them.                                                  *)
(***************************************************************************)
\* dq_addlast(node, queue)
dq_addlast(node, q, m) ==
    LET tail == m[q].tail
        c1 == [m.conns EXCEPT ![node].flink = NULL, ![node].blink = tail]
    IN  IF m[q].head = NULL
        THEN [m EXCEPT !.conns = c1, ![q] = [head |-> node, tail |-> node]]
        ELSE [m EXCEPT !.conns = [c1 EXCEPT ![tail].flink = node],
                       ![q] = [m[q] EXCEPT !.tail = node]]

\* dq_remfirst(queue): the node removed (or NULL) and the memory after it
dq_remfirst(q, m) ==
    LET node == m[q].head
    IN  IF node = NULL
        THEN [node |-> NULL, mem |-> m]
        ELSE LET next == m.conns[node].flink
                 m1 == IF next = NULL
                       THEN [m EXCEPT ![q] = EmptyQueue]
                       ELSE [m EXCEPT ![q] = [m[q] EXCEPT !.head = next],
                                      !.conns = [m.conns EXCEPT ![next].blink = NULL]]
             IN  [node |-> node,
                  mem |-> [m1 EXCEPT !.conns = [m1.conns EXCEPT ![node].flink = NULL,
                                                                ![node].blink = NULL]]]

\* dq_rem(node, queue)
dq_rem(node, q, m) ==
    LET prev == m.conns[node].blink
        next == m.conns[node].flink
        m1 == IF prev = NULL
              THEN [m EXCEPT ![q] = [m[q] EXCEPT !.head = next]]
              ELSE [m EXCEPT !.conns = [m.conns EXCEPT ![prev].flink = next]]
        m2 == IF next = NULL
              THEN [m1 EXCEPT ![q] = [m1[q] EXCEPT !.tail = prev]]
              ELSE [m1 EXCEPT !.conns = [m1.conns EXCEPT ![next].blink = prev]]
    IN  [m2 EXCEPT !.conns = [m2.conns EXCEPT ![node].flink = NULL,
                                              ![node].blink = NULL]]

\* The nodes of a queue from its head along flink (at most `fuel` of them).
RECURSIVE Walk(_, _, _)
Walk(conns, node, fuel) ==
    IF node = NULL \/ fuel = 0
    THEN <<>>
    ELSE <<node>> \o Walk(conns, conns[node].flink, fuel - 1)

QueueSeq(q, m) == Walk(m.conns, m[q].head, CONFIG_NET_IEEE802154_NCONNS + 1)

Range(s) == {s[i] : i \in 1 .. Len(s)}

FreeSeq == QueueSeq("free", Mem)
ActiveSeq == QueueSeq("active", Mem)
FreeSet == Range(FreeSeq)
ActiveSet == Range(ActiveSeq)

(***************************************************************************)
(* ieee802154_initialize()                                                 *)
(***************************************************************************)
\* The loop of ieee802154_initialize from index i on, up to index n.
RECURSIVE initialize_loop(_, _, _)
initialize_loop(i, n, m) ==
    IF i < n
    THEN initialize_loop(i + 1, n, dq_addlast(i, "free", m))
    ELSE m

\* A slip: the loop stops one connection short.
initialize_mem_short(m) ==
    initialize_loop(0, CONFIG_NET_IEEE802154_NCONNS - 1,
                    [m EXCEPT !.free = EmptyQueue, !.active = EmptyQueue])

\* The memory ieee802154_initialize leaves.
initialize_mem(m) ==
    initialize_loop(0, CONFIG_NET_IEEE802154_NCONNS,
                    [m EXCEPT !.free = EmptyQueue, !.active = EmptyQueue])

(***************************************************************************)
(* ieee802154_alloc(): between semtake and semgive                         *)
(***************************************************************************)
\* A slip: the head of the free queue is used without being removed from it.
alloc_mem_peek(m) ==
    LET conn == m.free.head
    IN  IF conn # NULL
        THEN [node |-> conn, mem |-> dq_addlast(conn, "active", m)]
        ELSE [node |-> conn, mem |-> m]

\* A slip: the connection is handed out with its addresses cleared.
alloc_mem_zero(m) ==
    LET r == dq_remfirst("free", m)
    IN  IF r.node # NULL
        THEN LET m1 == dq_addlast(r.node, "active", r.mem)
             IN  [node |-> r.node,
                  mem |-> [m1 EXCEPT !.conns[r.node].laddr = ZeroSaddr,
                                     !.conns[r.node].raddr = ZeroSaddr]]
        ELSE r

alloc_mem(m) ==
    LET r == dq_remfirst("free", m)
    IN  IF r.node # NULL
        THEN [node |-> r.node, mem |-> dq_addlast(r.node, "active", r.mem)]
        ELSE r

(***************************************************************************)
(* ieee802154_free(conn): between semtake and semgive                      *)
(***************************************************************************)
\* A slip: the connection is not removed from the active queue.
free_mem_norem(conn, m) == dq_addlast(conn, "free", m)

\* A slip: the connection is put at the head of the free queue.
free_mem_addfirst(conn, m) ==
    LET m1 == dq_rem(conn, "active", m)
        head == m1.free.head
        c1 == [m1.conns EXCEPT ![conn].blink = NULL, ![conn].flink = head]
    IN  IF head = NULL
        THEN [m1 EXCEPT !.conns = c1, !.free = [head |-> conn, tail |-> conn]]
        ELSE [m1 EXCEPT !.conns = [c1 EXCEPT ![head].blink = conn],
                        !.free = [m1.free EXCEPT !.head = conn]]

\* A slip: the connection is not put on the free queue.
free_mem_noadd(conn, m) == dq_rem(conn, "active", m)

free_mem(conn, m) == dq_addlast(conn, "free", dq_rem(conn, "active", m))

\* A slip: the reference count is not asserted.
free_asserts_never(conn, debug, m) == FALSE

\* DEBUGASSERT(conn->crefs == 0) fails: only a build with assertions tests it.
free_asserts(conn, debug, m) == debug /\ m.conns[conn].crefs # 0

(***************************************************************************)
(* ieee802154_nextconn(conn)                                               *)
(***************************************************************************)
\* A slip: the cursor follows the backward link.
nextconn_blink(conn, m) ==
    IF conn = NULL THEN m.active.head ELSE m.conns[conn].blink

nextconn(conn, m) ==
    IF conn = NULL THEN m.active.head ELSE m.conns[conn].flink

(***************************************************************************)
(* ieee802154_active(meta)                                                 *)
(***************************************************************************)
\* The bytes a pointer to the saddr field of a struct ieee802154_addr_s
\* reaches: saddr, then eaddr, which follows it in the structure.
AtSaddr(addr) == addr.saddr \o addr.eaddr

\* The bytes a pointer to the eaddr field reaches.
AtEaddr(addr) == addr.eaddr

\* The same for the s_saddr and s_eaddr fields of a struct ieee802154_saddr_s.
AtSockSaddr(sockaddr) == sockaddr.s_saddr \o sockaddr.s_eaddr
AtSockEaddr(sockaddr) == sockaddr.s_eaddr

\* IEEE802154_SADDRCMP(X, Y) and IEEE802154_EADDRCMP(X, Y): the first
\* IEEE802154_SADDRSIZE (IEEE802154_EADDRSIZE) bytes at X and at Y are equal.
IEEE802154_SADDRCMP(X, Y) ==
    SubSeq(X, 1, IEEE802154_SADDRSIZE) = SubSeq(Y, 1, IEEE802154_SADDRSIZE)

IEEE802154_EADDRCMP(X, Y) ==
    SubSeq(X, 1, IEEE802154_EADDRSIZE) = SubSeq(Y, 1, IEEE802154_EADDRSIZE)

\* The three tests on the bound (local) address: TRUE when none of them
\* says `continue`.
active_local(meta, conn) ==
    /\ ~ (meta.dest.mode # conn.laddr.s_mode)
    /\ ~ (/\ meta.dest.mode = IEEE802154_ADDRMODE_SHORT
          /\ ~ IEEE802154_SADDRCMP(AtSaddr(meta.dest), AtSockSaddr(conn.laddr)))
    /\ ~ (/\ meta.dest.mode = IEEE802154_ADDRMODE_EXTENDED
          /\ ~ IEEE802154_EADDRCMP(AtSaddr(meta.dest), AtSockEaddr(conn.laddr)))

\* A slip: a connected socket accepts whatever the frame's address is.
active_remote_always(meta, conn) ==
    CASE conn.raddr.s_mode = IEEE802154_ADDRMODE_NONE -> "return conn"
      [] conn.raddr.s_mode = IEEE802154_ADDRMODE_SHORT -> "return conn"
      [] conn.raddr.s_mode = IEEE802154_ADDRMODE_EXTENDED -> "return conn"
      [] OTHER -> "return NULL"

\* A slip: an invalid remote mode leaves the switch instead of the function.
active_remote_skip(meta, conn) ==
    CASE conn.raddr.s_mode = IEEE802154_ADDRMODE_NONE -> "return conn"
      [] conn.raddr.s_mode = IEEE802154_ADDRMODE_SHORT ->
            IF IEEE802154_SADDRCMP(AtSaddr(meta.dest), AtSockSaddr(conn.raddr))
            THEN "return conn" ELSE "break"
      [] conn.raddr.s_mode = IEEE802154_ADDRMODE_EXTENDED ->
            IF IEEE802154_EADDRCMP(AtEaddr(meta.dest), AtSockEaddr(conn.raddr))
            THEN "return conn" ELSE "break"
      [] OTHER -> "break"

\* A slip: the connected address is compared with the frame's source.
active_remote_src(meta, conn) ==
    CASE conn.raddr.s_mode = IEEE802154_ADDRMODE_NONE -> "return conn"
      [] conn.raddr.s_mode = IEEE802154_ADDRMODE_SHORT ->
            IF IEEE802154_SADDRCMP(AtSaddr(meta.src), AtSockSaddr(conn.raddr))
            THEN "return conn" ELSE "break"
      [] conn.raddr.s_mode = IEEE802154_ADDRMODE_EXTENDED ->
            IF IEEE802154_EADDRCMP(AtEaddr(meta.src), AtSockEaddr(conn.raddr))
            THEN "return conn" ELSE "break"
      [] OTHER -> "return NULL"

\* The switch on the connected (remote) address mode: how it is left.
active_remote(meta, conn) ==
    CASE conn.raddr.s_mode = IEEE802154_ADDRMODE_NONE -> "return conn"
      [] conn.raddr.s_mode = IEEE802154_ADDRMODE_SHORT ->
            IF IEEE802154_SADDRCMP(AtSaddr(meta.dest), AtSockSaddr(conn.raddr))
            THEN "return conn" ELSE "break"
      [] conn.raddr.s_mode = IEEE802154_ADDRMODE_EXTENDED ->
            IF IEEE802154_EADDRCMP(AtEaddr(meta.dest), AtSockEaddr(conn.raddr))
            THEN "return conn" ELSE "break"
      [] OTHER -> "return NULL"

\* The for loop from `conn` on; `fuel` bounds the walk.
RECURSIVE active_loop(_, _, _, _)
active_loop(meta, conn, m, fuel) ==
    IF conn = NULL \/ fuel = 0
    THEN NULL
    ELSE LET next == m.conns[conn].flink
         IN  IF ~ active_local(meta, m.conns[conn])
             THEN active_loop(meta, next, m, fuel - 1)
             ELSE LET how == active_remote(meta, m.conns[conn])
                  IN  IF how = "return conn" THEN conn
                      ELSE IF how = "return NULL" THEN NULL
                      ELSE active_loop(meta, next, m, fuel - 1)

\* The value ieee802154_active(meta) returns.
active(meta, m) ==
    active_loop(meta, m.active.head, m, CONFIG_NET_IEEE802154_NCONNS + 1)

(***************************************************************************)
(* Calls and their inputs.                                                 *)
(***************************************************************************)
\* The source addresses of frames.
SrcAddrs ==
    {[mode |-> IEEE802154_ADDRMODE_SHORT, saddr |-> SB, eaddr |-> EA],
     [mode |-> IEEE802154_ADDRMODE_SHORT, saddr |-> SA, eaddr |-> EB],
     [mode |-> IEEE802154_ADDRMODE_EXTENDED, saddr |-> SA, eaddr |-> EA]}

\* struct ieee802154_data_ind_s: the destination address of a frame, and
\* its source address (the first of SrcAddrs unless stated).
Frame(mode, saddr, eaddr) ==
    [dest |-> [mode |-> mode, saddr |-> saddr, eaddr |-> eaddr],
     src |-> [mode |-> IEEE802154_ADDRMODE_SHORT, saddr |-> SB, eaddr |-> EA]]

\* The frames a lookup is tried with.
Frames ==
    {Frame(mode, saddr, eaddr) :
        mode \in {IEEE802154_ADDRMODE_NONE, IEEE802154_ADDRMODE_SHORT,
                  IEEE802154_ADDRMODE_EXTENDED},
        saddr \in {SA, SB}, eaddr \in {EA, EB}}

\* The frames tried on the table whose connections the socket layer has not bound.
PoolFrames ==
    {Frame(IEEE802154_ADDRMODE_NONE, SA, EA), Frame(IEEE802154_ADDRMODE_SHORT, SA, EA)}

NoFrame == Frame(IEEE802154_ADDRMODE_NONE, SA, EA)

\* The record of a call.
Call(op, arg, val, meta) == [op |-> op, arg |-> arg, val |-> val, meta |-> meta]

Last(s) == s[Len(s)]

Remove(s, x) == SelectSeq(s, LAMBDA y : y # x)

Min(a, b) == IF a < b THEN a ELSE b

\* The bookkeeping of `run`: the calls of alloc since initialize while nothing
\* was released (phase "fill", n of them, counted up to one past the capacity);
\* then "released" by the release that follows the failed allocation, and
\* "reacquired" by the allocation that follows that release.
RunOff == [phase |-> "off", n |-> 0]

run_alloc(r) ==
    IF r.phase = "fill"
    THEN [r EXCEPT !.n = Min(r.n + 1, CONFIG_NET_IEEE802154_NCONNS + 1)]
    ELSE IF r.phase = "released" THEN [phase |-> "reacquired", n |-> 0]
    ELSE RunOff

run_free(r) ==
    IF r.phase = "fill" /\ r.n = CONFIG_NET_IEEE802154_NCONNS + 1
    THEN [phase |-> "released", n |-> 0]
    ELSE RunOff

\* The threads of the model.
NThreads == 2

Threads == 1 .. NThreads

NoThread == 0

\* No thread is in a call, none holds the network lock.
ThreadsIdle ==
    /\ pc = [t \in Threads |-> "idle"]
    /\ tconn = [t \in Threads |-> NULL]
    /\ g_netlock = NoThread
    /\ eintr = 0

SetMem(m) ==
    /\ g_ieee802154_connections' = m.conns
    /\ g_free_ieee802154_connections' = m.free
    /\ g_active_ieee802154_connections' = m.active

(***************************************************************************)
(* Actions: one per function of the file, and the socket layer's counting  *)
(* of references.                                                          *)
(***************************************************************************)
ieee802154_initialize ==
    /\ ~ started
    /\ SetMem(initialize_mem(Mem))
    /\ g_free_sem' = 1
    /\ started' = TRUE
    /\ ret' = Call("initialize", NULL, NULL, NoFrame)
    /\ visited' = <<>>
    /\ handles' = <<>>
    /\ run' = [phase |-> "fill", n |-> 0]
    /\ UNCHANGED <<config_debug_assertions, halted>>
    /\ UNCHANGED tvars

\* A slip: with an empty free queue the function returns before semgive.
ieee802154_alloc_leak ==
    /\ started /\ ~ halted
    /\ g_free_sem > 0
    /\ LET r == alloc_mem(Mem)
       IN  /\ SetMem(r.mem)
           /\ ret' = Call("alloc", NULL, r.node, NoFrame)
           /\ handles' = IF r.node # NULL THEN Append(handles, r.node) ELSE handles
           /\ g_free_sem' = IF r.node # NULL THEN (g_free_sem - 1) + 1
                                              ELSE g_free_sem - 1
    /\ run' = run_alloc(run)
    /\ visited' = <<>>
    /\ UNCHANGED <<config_debug_assertions, started, halted>>
    /\ UNCHANGED tvars

ieee802154_alloc ==
    /\ started /\ ~ halted
    /\ g_free_sem > 0
    /\ LET r == alloc_mem(Mem)
       IN  /\ SetMem(r.mem)
           /\ ret' = Call("alloc", NULL, r.node, NoFrame)
           /\ handles' = IF r.node # NULL THEN Append(handles, r.node) ELSE handles
    /\ g_free_sem' = (g_free_sem - 1) + 1
    /\ run' = run_alloc(run)
    /\ visited' = <<>>
    /\ UNCHANGED <<config_debug_assertions, started, halted>>
    /\ UNCHANGED tvars

\* `op` is the name under which the call is recorded in `ret`.
ieee802154_free_call(conn, op) ==
    /\ started /\ ~ halted
    /\ IF free_asserts(conn, config_debug_assertions, Mem)
       THEN /\ halted' = TRUE
            /\ UNCHANGED <<g_ieee802154_connections, g_free_ieee802154_connections,
                           g_active_ieee802154_connections, g_free_sem, handles, run>>
       ELSE /\ g_free_sem > 0
            /\ SetMem(free_mem(conn, Mem))
            /\ g_free_sem' = (g_free_sem - 1) + 1
            /\ handles' = Remove(handles, conn)
            /\ run' = run_free(run)
            /\ UNCHANGED halted
    /\ ret' = Call(op, conn, NULL, NoFrame)
    /\ visited' = <<>>
    /\ UNCHANGED <<config_debug_assertions, started>>
    /\ UNCHANGED tvars

ieee802154_free(conn) == ieee802154_free_call(conn, "free")

\* ieee802154_free called for a connection that is on the free queue.
ieee802154_free_again(conn) ==
    /\ conn \in FreeSet
    /\ ieee802154_free_call(conn, "free again")

\* A slip: the lookup takes the semaphore of the queues and keeps it.
ieee802154_active_semtake(meta) ==
    /\ started /\ ~ halted
    /\ g_free_sem > 0
    /\ g_free_sem' = g_free_sem - 1
    /\ ret' = Call("active", NULL, active(meta, Mem), meta)
    /\ visited' = <<>>
    /\ UNCHANGED <<g_ieee802154_connections, g_free_ieee802154_connections,
                   g_active_ieee802154_connections,
                   config_debug_assertions, started, halted, handles, run>>
    /\ UNCHANGED tvars

ieee802154_active(meta) ==
    /\ started /\ ~ halted
    /\ ret' = Call("active", NULL, active(meta, Mem), meta)
    /\ visited' = <<>>
    /\ UNCHANGED <<g_ieee802154_connections, g_free_ieee802154_connections,
                   g_active_ieee802154_connections, g_free_sem,
                   config_debug_assertions, started, halted, handles, run>>
    /\ UNCHANGED tvars

ieee802154_nextconn(conn) ==
    /\ started /\ ~ halted
    /\ LET r == nextconn(conn, Mem)
       IN  /\ ret' = Call("nextconn", conn, r, NoFrame)
           /\ visited' = IF conn = NULL THEN <<r>> ELSE Append(visited, r)
    /\ UNCHANGED <<g_ieee802154_connections, g_free_ieee802154_connections,
                   g_active_ieee802154_connections, g_free_sem,
                   config_debug_assertions, started, halted, handles, run>>
    /\ UNCHANGED tvars

\* The socket layer takes (d = 1) or drops (d = -1) a reference to a
\* connection it holds.
sock_crefs(conn, d) ==
    /\ started /\ ~ halted
    /\ g_ieee802154_connections[conn].crefs + d \in 0 .. MaxCrefs
    /\ g_ieee802154_connections' =
          [g_ieee802154_connections EXCEPT ![conn].crefs = @ + d]
    /\ ret' = Call("crefs", conn, NULL, NoFrame)
    /\ visited' = <<>>
    /\ UNCHANGED <<g_free_ieee802154_connections, g_active_ieee802154_connections,
                   g_free_sem, config_debug_assertions, started, halted, handles, run>>
    /\ UNCHANGED tvars

(***************************************************************************)
(* Spec: the table from zeroed static storage on.  release is called on    *)
(* handles alloc returned and that were not released since; a traversal    *)
(* goes on from the handle the last call of it returned.                   *)
(***************************************************************************)
Init ==
    /\ g_ieee802154_connections = [i \in Slots |-> ZeroConn]
    /\ g_free_ieee802154_connections = EmptyQueue
    /\ g_active_ieee802154_connections = EmptyQueue
    /\ g_free_sem = 0
    /\ config_debug_assertions \in BOOLEAN
    /\ started = FALSE
    /\ halted = FALSE
    /\ ret = Call("boot", NULL, NULL, NoFrame)
    /\ visited = <<>>
    /\ handles = <<>>
    /\ run = RunOff
    /\ ThreadsIdle

Next ==
    \/ ieee802154_initialize
    \/ ieee802154_alloc
    \/ \E conn \in Range(handles) : ieee802154_free(conn)
    \/ \E conn \in Range(handles) : \E d \in {-1, 1} : sock_crefs(conn, d)
    \/ \E meta \in PoolFrames : ieee802154_active(meta)
    \/ ieee802154_nextconn(NULL)
    \/ /\ visited # <<>>
       /\ Last(visited) # NULL
       /\ ieee802154_nextconn(Last(visited))

Spec == Init /\ [][Next]_vars

(***************************************************************************)
(* SpecMatch: the lookup, on every table that holds up to MaxActive active *)
(* connections (allocated one after the other once the table is            *)
(* initialized) whose addresses the socket layer's bind and connect have   *)
(* set, and for every frame of Frames.                                     *)
(***************************************************************************)
Sockaddr(mode, saddr, eaddr) == [s_mode |-> mode, s_saddr |-> saddr, s_eaddr |-> eaddr]

\* The addresses bind() gives a connection (none when it was not called).
LocalAddrs ==
    {ZeroSaddr,
     Sockaddr(IEEE802154_ADDRMODE_SHORT, SA, ZeroBytes(IEEE802154_EADDRSIZE)),
     Sockaddr(IEEE802154_ADDRMODE_EXTENDED, ZeroBytes(IEEE802154_SADDRSIZE), EA),
     Sockaddr(IEEE802154_ADDRMODE_EXTENDED, ZeroBytes(IEEE802154_SADDRSIZE), EB)}

\* The addresses connect() gives a connection, and a corrupted mode.
RemoteAddrs ==
    {ZeroSaddr,
     Sockaddr(IEEE802154_ADDRMODE_SHORT, SA, ZeroBytes(IEEE802154_EADDRSIZE)),
     Sockaddr(IEEE802154_ADDRMODE_SHORT, SB, ZeroBytes(IEEE802154_EADDRSIZE)),
     Sockaddr(IEEE802154_ADDRMODE_EXTENDED, ZeroBytes(IEEE802154_SADDRSIZE), EA),
     Sockaddr(ADDRMODE_RESERVED, ZeroBytes(IEEE802154_SADDRSIZE),
              ZeroBytes(IEEE802154_EADDRSIZE))}

\* The memory after k calls of ieee802154_alloc.
RECURSIVE alloc_times(_, _)
alloc_times(k, m) == IF k = 0 THEN m ELSE alloc_times(k - 1, alloc_mem(m).mem)

\* The table after initialize, k allocations, and bind/connect on each of them.
BoundMem(k, l, r) ==
    LET m == alloc_times(k, initialize_mem([conns |-> [i \in Slots |-> ZeroConn],
                                           free |-> EmptyQueue,
                                           active |-> EmptyQueue]))
    IN  [m EXCEPT !.conns = [i \in Slots |->
                                IF i < k
                                THEN [m.conns[i] EXCEPT !.laddr = l[i], !.raddr = r[i]]
                                ELSE m.conns[i]]]

InitMatch ==
    \E k \in 0 .. Min(MaxActive, CONFIG_NET_IEEE802154_NCONNS) :
      \E l \in [0 .. (k - 1) -> LocalAddrs] :
        \E r \in [0 .. (k - 1) -> RemoteAddrs] :
          LET m == BoundMem(k, l, r)
          IN  /\ g_ieee802154_connections = m.conns
              /\ g_free_ieee802154_connections = m.free
              /\ g_active_ieee802154_connections = m.active
              /\ g_free_sem = 1
              /\ config_debug_assertions = TRUE
              /\ started = TRUE
              /\ halted = FALSE
              /\ ret = Call("bind", NULL, NULL, NoFrame)
              /\ visited = <<>>
              /\ handles = [i \in 1 .. k |-> i - 1]
              /\ run = RunOff
              /\ ThreadsIdle

NextMatch == \E meta \in Frames : ieee802154_active(meta)

SpecMatch == InitMatch /\ [][NextMatch]_vars

(***************************************************************************)
(* Properties of the table (Spec).                                         *)
(***************************************************************************)
Conn(c) == g_ieee802154_connections[c]

IsPrefix(s, t) == Len(s) <= Len(t) /\ \A i \in 1 .. Len(s) : s[i] = t[i]

\* C1: once the table is initialized, every slot is on exactly one of the
\* free queue and the active queue, so the two queues hold
\* CONFIG_NET_IEEE802154_NCONNS connections together.
C1_Membership ==
    started =>
      /\ \A c \in Slots : (c \in FreeSet) # (c \in ActiveSet)
      /\ Len(FreeSeq) + Len(ActiveSeq) = CONFIG_NET_IEEE802154_NCONNS

\* A release has just moved a connection to the free queue, and both queues
\* hold connections.
C1_Witness ==
    /\ ret.op = "free" /\ ~ halted
    /\ ret.arg \in FreeSet
    /\ ActiveSeq # <<>>

\* C2: after initialize, the first CONFIG_NET_IEEE802154_NCONNS allocations
\* with no release between them return a connection, the next one returns
\* NULL, and an allocation that follows a release returns a connection.
C2_CapacityBound ==
    [][ret'.op = "alloc" =>
          /\ (run.phase = "fill" /\ run.n < CONFIG_NET_IEEE802154_NCONNS)
                => ret'.val # NULL
          /\ (run.phase = "fill" /\ run.n >= CONFIG_NET_IEEE802154_NCONNS)
                => ret'.val = NULL
          /\ (run.phase = "released" \/ ret.op = "free") => ret'.val # NULL]_vars

\* The table was filled, an allocation failed, a connection was released and
\* the allocation after it has returned a connection.
C2_Witness ==
    /\ run.phase = "reacquired"
    /\ ret.op = "alloc" /\ ret.val # NULL

\* C3: alloc never returns a connection that is on the active queue when it
\* is called, nor one it has returned and that was not released since.
C3_Exclusivity ==
    [][(ret'.op = "alloc" /\ ret'.val # NULL) =>
          /\ ret'.val \notin ActiveSet
          /\ ret'.val \notin Range(handles)]_vars

\* alloc has returned a released slot again while an older handle is out.
C3_Witness ==
    /\ ret.op = "alloc" /\ ret.val # NULL
    /\ Len(handles) >= 2
    /\ ret.val < handles[1]

\* C9: a traversal that starts with nextconn(NULL) and feeds each result
\* back visits the handles that are out, each once, in the order they were
\* allocated, then gets NULL; it visits no connection of the free queue.
C9_Enumeration ==
    visited # <<>> =>
      /\ IsPrefix(visited, Append(handles, NULL))
      /\ \A i \in 1 .. Len(visited) :
            /\ visited[i] # NULL => visited[i] \notin FreeSet
            /\ \A j \in 1 .. Len(visited) : i # j => visited[i] # visited[j]
      /\ Last(visited) = NULL => Len(visited) = Len(handles) + 1

\* A traversal has ended after it visited two handles of which the older
\* one sits in the higher slot (a slot was released and allocated again).
C9_Witness ==
    /\ visited # <<>> /\ Last(visited) = NULL
    /\ Len(visited) >= 3
    /\ visited[1] > visited[2]

\* What C10 says of one step; with debug_only, of a build that compiles
\* DEBUGASSERT in.
C10_Step(debug_only) ==
    (debug_only => config_debug_assertions) =>
      /\ \A c \in Slots :
            (c \in ActiveSet /\ c \notin ActiveSet') =>
               /\ ret'.op = "free" /\ ret'.arg = c
               /\ Conn(c).crefs = 0
               /\ c \in FreeSet'
      /\ (ret'.op = "free" /\ Conn(ret'.arg).crefs # 0) =>
            /\ halted'
            /\ UNCHANGED <<g_ieee802154_connections, g_free_ieee802154_connections,
                           g_active_ieee802154_connections>>
      /\ \A c \in FreeSet' : g_ieee802154_connections'[c].crefs = 0
      /\ (ret'.op = "alloc" /\ ret'.val # NULL) => Conn(ret'.val).crefs = 0

\* C10 (as amended): in a build that compiles DEBUGASSERT in, a connection
\* leaves the active queue only by a release with crefs = 0; a release with
\* crefs # 0 stops the system and moves nothing; no connection of the free
\* queue, and none alloc returns, has crefs # 0.
C10_ReleaseUnreferenced == [][C10_Step(TRUE)]_vars

\* A release of a referenced connection has stopped the system; the
\* connection is still on the active queue.
C10_Witness ==
    /\ halted /\ ret.op = "free"
    /\ Conn(ret.arg).crefs # 0
    /\ ret.arg \in ActiveSet

\* C10 (as claimed): the same of every build.
C10_Original == [][C10_Step(FALSE)]_vars

(***************************************************************************)
(* Properties of the lookup (SpecMatch, and Spec for unbound connections). *)
(* The active connections, oldest first, are the handles that are out.     *)
(***************************************************************************)
ValidModes ==
    {IEEE802154_ADDRMODE_NONE, IEEE802154_ADDRMODE_SHORT, IEEE802154_ADDRMODE_EXTENDED}

\* The filter on the local address as the design states it: the modes are
\* equal, and so are the short (extended) values when the mode is SHORT
\* (EXTENDED).
LocalFilter(meta, conn) ==
    /\ meta.dest.mode = conn.laddr.s_mode
    /\ meta.dest.mode = IEEE802154_ADDRMODE_SHORT
          => meta.dest.saddr = conn.laddr.s_saddr
    /\ meta.dest.mode = IEEE802154_ADDRMODE_EXTENDED
          => meta.dest.eaddr = conn.laddr.s_eaddr

\* The filter on the remote address as the design states it.
RemoteAccepts(meta, conn) ==
    \/ conn.raddr.s_mode = IEEE802154_ADDRMODE_NONE
    \/ /\ conn.raddr.s_mode = IEEE802154_ADDRMODE_SHORT
       /\ meta.dest.saddr = conn.raddr.s_saddr
    \/ /\ conn.raddr.s_mode = IEEE802154_ADDRMODE_EXTENDED
       /\ meta.dest.eaddr = conn.raddr.s_eaddr

\* The test of the local address a reference scan uses: the design's, or
\* the one the lookup makes.
Passes(meta, conn, design) ==
    IF design THEN LocalFilter(meta, conn) ELSE active_local(meta, conn)

\* The positions in the active order whose connection decides a first-match
\* scan: it passes the test of the local address and either is accepted or
\* has an invalid remote mode.
Deciding(meta, design) ==
    {i \in 1 .. Len(handles) :
        /\ Passes(meta, Conn(handles[i]), design)
        /\ \/ RemoteAccepts(meta, Conn(handles[i]))
           \/ Conn(handles[i]).raddr.s_mode \notin ValidModes}

SetMin(S) == CHOOSE i \in S : \A j \in S : i <= j

\* The reference first-match scan.
FirstMatch(meta, design) ==
    LET D == Deciding(meta, design)
    IN  IF D = {} THEN NULL
        ELSE IF Conn(handles[SetMin(D)]).raddr.s_mode \in ValidModes
        THEN handles[SetMin(D)]
        ELSE NULL

\* C4: the lookup returns what the reference first-match scan returns, for
\* the local filter and the remote comparisons of the design.
C4_FirstMatchScan ==
    ret.op = "active" => ret.val = FirstMatch(ret.meta, TRUE)

\* The part of C4 that the code keeps: the same scan with the code's test
\* of the local address in place of the design's.
FirstMatchScanOfCode ==
    ret.op = "active" => ret.val = FirstMatch(ret.meta, FALSE)

\* C5: the lookup never returns a connection whose local address mode is NONE.
C5_UnboundNeverReceives ==
    (ret.op = "active" /\ ret.val # NULL)
        => Conn(ret.val).laddr.s_mode # IEEE802154_ADDRMODE_NONE

\* C6: for a frame whose destination mode is EXTENDED, a connection whose
\* local extended address differs from the frame's is never returned, and a
\* connection whose local extended address equals the frame's is not
\* rejected on its local address: the oldest active connection, when it is
\* bound to the frame's extended address and not connected, is returned.
C6_ExtendedLocalFilter ==
    (ret.op = "active" /\ ret.meta.dest.mode = IEEE802154_ADDRMODE_EXTENDED) =>
      /\ ret.val # NULL => Conn(ret.val).laddr.s_eaddr = ret.meta.dest.eaddr
      /\ ( /\ handles # <<>>
           /\ Conn(handles[1]).laddr.s_mode = IEEE802154_ADDRMODE_EXTENDED
           /\ Conn(handles[1]).laddr.s_eaddr = ret.meta.dest.eaddr
           /\ Conn(handles[1]).raddr.s_mode = IEEE802154_ADDRMODE_NONE )
         => ret.val = handles[1]

Matches(meta, conn) ==
    /\ conn.raddr.s_mode \in ValidModes
    /\ active_local(meta, conn)
    /\ active_remote(meta, conn) = "return conn"

\* C8 (as claimed): whenever a connection with an invalid remote mode is
\* ahead of a valid connection that matches the frame, the lookup returns
\* NULL.
C8_Original ==
    ret.op = "active" =>
      \A i, j \in 1 .. Len(handles) :
        ( /\ i < j
          /\ Conn(handles[i]).raddr.s_mode \notin ValidModes
          /\ Matches(ret.meta, Conn(handles[j])) )
        => ret.val = NULL

\* C8 (as amended): whenever a connection with an invalid remote mode that
\* the lookup's test of the local address does not skip is ahead of a valid
\* connection that matches the frame, the lookup does not return a
\* connection behind the invalid one, and it returns NULL unless a
\* connection ahead of the invalid one matches.
C8_ShortCircuit ==
    ret.op = "active" =>
      \A i, j \in 1 .. Len(handles) :
        ( /\ i < j
          /\ Conn(handles[i]).raddr.s_mode \notin ValidModes
          /\ active_local(ret.meta, Conn(handles[i]))
          /\ Matches(ret.meta, Conn(handles[j])) )
        => /\ \A k \in i .. Len(handles) : ret.val # handles[k]
           /\ (\A k \in 1 .. (i - 1) : ~ Matches(ret.meta, Conn(handles[k])))
                 => ret.val = NULL

\* The oldest connection has an invalid remote mode and passes the test of
\* the local address, the next one matches the frame, and the lookup has
\* returned NULL.
C8_Witness ==
    /\ ret.op = "active" /\ Len(handles) >= 2
    /\ Conn(handles[1]).raddr.s_mode \notin ValidModes
    /\ active_local(ret.meta, Conn(handles[1]))
    /\ Matches(ret.meta, Conn(handles[2]))
    /\ ret.val = NULL

(***************************************************************************)
(* SpecConc: threads call ieee802154_alloc and ieee802154_free.  A call    *)
(* is a sequence of steps: _ieee802154_semtake, the work on the queues,    *)
(* _ieee802154_semgive with the return.  crefs is 0 throughout, so         *)
(* DEBUGASSERT at line 182 passes.                                         *)
(***************************************************************************)
\* Interrupted waits in a run of the model.
MaxEintr == 1

\* Where a thread waits in _ieee802154_semtake.
SemtakeLabels == {"alloc: semtake", "free: semtake"}

\* Where a thread is between _ieee802154_semtake and _ieee802154_semgive.
CriticalLabels ==
    {"alloc: critical", "alloc: semgive", "free: critical", "free: semgive"}

\* Where a thread goes on when net_lockedwait has returned 0.
semtake_taken(label) ==
    IF label = "alloc: semtake" THEN "alloc: critical" ELSE "free: critical"

\* A slip: the error of net_lockedwait is ignored (an `if` for the `while`).
semtake_interrupted_goes_on(label) == semtake_taken(label)

\* Where a thread goes on when net_lockedwait has failed with EINTR: the
\* loop calls it again.
semtake_interrupted(label) == label

\* A slip: the semaphore is not posted.
semgive_lost(sem) == sem

\* _ieee802154_semgive: sem_post
semgive(sem) == sem + 1

Goto(t, label) == pc' = [pc EXCEPT ![t] = label]

\* The variables no step of a thread changes.
ThreadFrame ==
    UNCHANGED <<config_debug_assertions, started, halted, ret, visited, run, g_netlock>>

\* A thread calls ieee802154_alloc.
ieee802154_alloc_call(t) ==
    /\ started /\ ~ halted
    /\ pc[t] = "idle"
    /\ Goto(t, "alloc: semtake")
    /\ tconn' = [tconn EXCEPT ![t] = NULL]
    /\ UNCHANGED <<g_ieee802154_connections, g_free_ieee802154_connections,
                   g_active_ieee802154_connections, g_free_sem, handles, eintr>>
    /\ ThreadFrame

\* A thread calls ieee802154_free for a connection it was handed out; the
\* handle is not used after the call.
ieee802154_free_call_t(t, conn) ==
    /\ started /\ ~ halted
    /\ pc[t] = "idle"
    /\ ~ free_asserts(conn, config_debug_assertions, Mem)
    /\ Goto(t, "free: semtake")
    /\ tconn' = [tconn EXCEPT ![t] = conn]
    /\ handles' = Remove(handles, conn)
    /\ UNCHANGED <<g_ieee802154_connections, g_free_ieee802154_connections,
                   g_active_ieee802154_connections, g_free_sem, eintr>>
    /\ ThreadFrame

\* net_lockedwait returns 0: the thread has the semaphore.
ieee802154_semtake(t) ==
    /\ pc[t] \in SemtakeLabels
    /\ g_free_sem > 0
    /\ g_free_sem' = g_free_sem - 1
    /\ Goto(t, semtake_taken(pc[t]))
    /\ UNCHANGED <<g_ieee802154_connections, g_free_ieee802154_connections,
                   g_active_ieee802154_connections, handles, tconn, eintr>>
    /\ ThreadFrame

\* A signal wakes the thread that waits for the semaphore: net_lockedwait
\* fails with EINTR.
ieee802154_semtake_eintr(t) ==
    /\ pc[t] \in SemtakeLabels
    /\ g_free_sem = 0
    /\ eintr < MaxEintr
    /\ eintr' = eintr + 1
    /\ Goto(t, semtake_interrupted(pc[t]))
    /\ UNCHANGED <<g_ieee802154_connections, g_free_ieee802154_connections,
                   g_active_ieee802154_connections, g_free_sem, handles, tconn>>
    /\ ThreadFrame

\* ieee802154_alloc between semtake and semgive: dq_remfirst and dq_addlast.
ieee802154_alloc_critical(t) ==
    /\ pc[t] = "alloc: critical"
    /\ LET r == alloc_mem(Mem)
       IN  /\ SetMem(r.mem)
           /\ tconn' = [tconn EXCEPT ![t] = r.node]
    /\ Goto(t, "alloc: semgive")
    /\ UNCHANGED <<g_free_sem, handles, eintr>>
    /\ ThreadFrame

\* ieee802154_free between semtake and semgive: dq_rem and dq_addlast.
ieee802154_free_critical(t) ==
    /\ pc[t] = "free: critical"
    /\ SetMem(free_mem(tconn[t], Mem))
    /\ Goto(t, "free: semgive")
    /\ UNCHANGED <<g_free_sem, handles, tconn, eintr>>
    /\ ThreadFrame

\* _ieee802154_semgive and the return; ieee802154_alloc returns conn.
ieee802154_semgive(t) ==
    /\ pc[t] \in {"alloc: semgive", "free: semgive"}
    /\ g_free_sem' = semgive(g_free_sem)
    /\ Goto(t, "idle")
    /\ handles' = IF pc[t] = "alloc: semgive" /\ tconn[t] # NULL
                  THEN Append(handles, tconn[t]) ELSE handles
    /\ tconn' = [tconn EXCEPT ![t] = NULL]
    /\ UNCHANGED <<g_ieee802154_connections, g_free_ieee802154_connections,
                   g_active_ieee802154_connections, eintr>>
    /\ ThreadFrame

ThreadStep(t) ==
    \/ ieee802154_alloc_call(t)
    \/ \E conn \in Range(handles) : ieee802154_free_call_t(t, conn)
    \/ ieee802154_semtake(t)
    \/ ieee802154_semtake_eintr(t)
    \/ ieee802154_alloc_critical(t)
    \/ ieee802154_free_critical(t)
    \/ ieee802154_semgive(t)

NextConc ==
    \/ ieee802154_initialize
    \/ \E t \in Threads : ThreadStep(t)

SpecConc == Init /\ [][NextConc]_vars

\* The steps of a thread that has the semaphore.
CriticalStep(t) ==
    \/ ieee802154_alloc_critical(t)
    \/ ieee802154_free_critical(t)
    \/ ieee802154_semgive(t)

\* The scheduler runs the thread that has the semaphore (there is at most
\* one), and sem_post wakes the threads that wait for the semaphore in
\* turn, so that no waiting thread is passed over for ever.  Interrupted
\* waits are finitely many (MaxEintr).
FairConc ==
    /\ WF_vars(\E t \in Threads : CriticalStep(t))
    /\ \A t \in Threads : SF_vars(ieee802154_semtake(t))

SpecLive == SpecConc /\ FairConc

(***************************************************************************)
(* SpecNet: SpecConc, and threads that take the network lock, walk the     *)
(* active queue with ieee802154_nextconn and give the lock back.  The      *)
(* threads in ieee802154_alloc and ieee802154_free do not hold the network *)
(* lock: the two functions take g_free_sem only (lines 150 and 184).       *)
(***************************************************************************)
\* The variables a step with the network lock leaves alone.
NetFrame ==
    UNCHANGED <<g_ieee802154_connections, g_free_ieee802154_connections,
                g_active_ieee802154_connections, g_free_sem,
                config_debug_assertions, started, halted, ret, visited, handles,
                run, eintr>>

\* net_lock() by the caller of the traversal.
net_lock(t) ==
    /\ started /\ ~ halted
    /\ pc[t] = "idle"
    /\ g_netlock = NoThread
    /\ g_netlock' = t
    /\ Goto(t, "net: locked")
    /\ tconn' = [tconn EXCEPT ![t] = NULL]
    /\ NetFrame

\* ieee802154_nextconn(conn) with the network lock held: the first call
\* passes NULL, the following ones the connection returned last.
ieee802154_nextconn_locked(t) ==
    /\ pc[t] \in {"net: locked", "net: walking"}
    /\ g_netlock = t
    /\ LET r == nextconn(tconn[t], Mem)
       IN  /\ tconn' = [tconn EXCEPT ![t] = r]
           /\ Goto(t, IF r = NULL THEN "net: done" ELSE "net: walking")
    /\ UNCHANGED g_netlock
    /\ NetFrame

\* net_unlock() when the traversal has ended.
net_unlock(t) ==
    /\ pc[t] = "net: done"
    /\ g_netlock = t
    /\ g_netlock' = NoThread
    /\ Goto(t, "idle")
    /\ UNCHANGED tconn
    /\ NetFrame

NextNet ==
    \/ NextConc
    \/ \E t \in Threads : net_lock(t)
    \/ \E t \in Threads : ieee802154_nextconn_locked(t)
    \/ \E t \in Threads : net_unlock(t)

SpecNet == Init /\ [][NextNet]_vars

(***************************************************************************)
(* The order of allocation, exhaustion, and the calls that only read       *)
(***************************************************************************)
\* The memory of the table and the semaphore of its queues.
TableState ==
    <<g_ieee802154_connections, g_free_ieee802154_connections,
      g_active_ieee802154_connections, g_free_sem>>

\* A call of ieee802154_free that went past the assertion.
Released == ret'.op = "free" /\ ~ halted'

(***************************************************************************)
(* SpecBind: Spec and the socket layer's bind() on the handles that are    *)
(* out, so that connections carry addresses when they are released.        *)
(***************************************************************************)
\* The local and the remote address that bind() and connect() set.
BindLocal == Sockaddr(IEEE802154_ADDRMODE_SHORT, SA, ZeroBytes(IEEE802154_EADDRSIZE))

BindRemote == ZeroSaddr

\* The socket layer sets the addresses of a connection it holds.
sock_bind(conn, laddr, raddr) ==
    /\ started /\ ~ halted
    /\ g_ieee802154_connections' =
          [g_ieee802154_connections EXCEPT ![conn].laddr = laddr, ![conn].raddr = raddr]
    /\ ret' = Call("bind", conn, NULL, NoFrame)
    /\ visited' = <<>>
    /\ UNCHANGED <<g_free_ieee802154_connections, g_active_ieee802154_connections,
                   g_free_sem, config_debug_assertions, started, halted, handles, run>>
    /\ UNCHANGED tvars

NextBind ==
    \/ ieee802154_initialize
    \/ ieee802154_alloc
    \/ \E conn \in Range(handles) : ieee802154_free(conn)
    \/ \E conn \in Range(handles) : sock_bind(conn, BindLocal, BindRemote)
    \/ \E meta \in PoolFrames : ieee802154_active(meta)
    \/ ieee802154_nextconn(NULL)
    \/ /\ visited # <<>>
       /\ Last(visited) # NULL
       /\ ieee802154_nextconn(Last(visited))

SpecBind == Init /\ [][NextBind]_vars

\* The slots that some number of calls of ieee802154_alloc from here returns.
Reacquirable(m) ==
    {h \in Slots : \E k \in 0 .. (CONFIG_NET_IEEE802154_NCONNS - 1) :
                      alloc_mem(alloc_times(k, m)).node = h}

\* C11: when ieee802154_free has returned for a connection whose addresses
\* were set and whose crefs is 0, the connection is on the free queue and
\* not on the active queue, and a sequence of calls of ieee802154_alloc
\* returns it again; ieee802154_active and ieee802154_nextconn return no
\* connection that is on the free queue.
C11_RoundTrip ==
    [][ /\ (Released /\ Conn(ret'.arg).crefs = 0) =>
              /\ ret'.arg \in FreeSet'
              /\ ret'.arg \notin ActiveSet'
              /\ ret'.arg \in Reacquirable(Mem')
        /\ (ret'.op \in {"active", "nextconn"} /\ ret'.val # NULL) =>
              /\ ret'.val \notin FreeSet
              /\ ret'.val \in ActiveSet
      ]_vars

\* A connection that carries the addresses set before its release has been
\* returned by ieee802154_alloc again.
C11_Witness ==
    /\ ret.op = "alloc" /\ ret.val # NULL
    /\ Conn(ret.val).laddr = BindLocal
    /\ Conn(ret.val).crefs = 0

\* C16: ieee802154_alloc and ieee802154_free change no connection's laddr,
\* raddr or crefs, so a connection allocated again carries the addresses
\* it had when it was released.
C16_FieldsKept ==
    [][ ret'.op \in {"alloc", "free"} =>
          \A i \in Slots :
            /\ Conn(i)'.laddr = Conn(i).laddr
            /\ Conn(i)'.raddr = Conn(i).raddr
            /\ Conn(i)'.crefs = Conn(i).crefs
      ]_vars

\* ieee802154_alloc has just returned a connection that was released with
\* its addresses set, and the lookup returns it for a frame to that address.
C16_Witness ==
    /\ ret.op = "alloc" /\ ret.val # NULL
    /\ Conn(ret.val).laddr = BindLocal
    /\ \E meta \in PoolFrames : active(meta, Mem) = ret.val

(***************************************************************************)
(* SpecDouble: connections are also released a second time.  The           *)
(* specification follows the table as long as its queues are consistent:   *)
(* what the functions do with queues that are not (a dereference of NULL,  *)
(* a walk that does not end) is left out.                                  *)
(***************************************************************************)
\* Every slot is on exactly one queue, and the head and the tail of the
\* active queue are connections of the active queue.
TableConsistent ==
    /\ \A c \in Slots : (c \in FreeSet) # (c \in ActiveSet)
    /\ Len(FreeSeq) + Len(ActiveSeq) = CONFIG_NET_IEEE802154_NCONNS
    /\ g_active_ieee802154_connections.head \in ActiveSet \cup {NULL}
    /\ g_active_ieee802154_connections.tail \in ActiveSet \cup {NULL}

NextDouble ==
    /\ started => TableConsistent
    /\ \/ ieee802154_initialize
       \/ ieee802154_alloc
       \/ \E conn \in Range(handles) : ieee802154_free(conn)
       \/ \E conn \in Slots : ieee802154_free_again(conn)

SpecDouble == Init /\ [][NextDouble]_vars

\* C19 (as stated): ieee802154_free on a connection with crefs 0 that is on
\* the free queue, at whatever place, leaves every slot on exactly one
\* queue and the head and tail of the active queue on active connections.
C19_Original ==
    [][ (ret'.op = "free again" /\ Conn(ret'.arg).crefs = 0) => TableConsistent' ]_vars

\* C19 (as amended): ieee802154_free on a connection with crefs 0 that is
\* on the active queue keeps the table consistent; on a connection that is
\* on the free queue it does so exactly when the connection is neither the
\* head nor the tail of the free queue, and it then moves the connection to
\* the tail of the free queue and leaves the active queue as it was.
C19_DoubleRelease ==
    [][ /\ (ret'.op = "free" /\ ~ halted' /\ Conn(ret'.arg).crefs = 0)
              => TableConsistent'
        /\ (ret'.op = "free again" /\ Conn(ret'.arg).crefs = 0) =>
              LET inside == ret'.arg # Head(FreeSeq) /\ ret'.arg # Last(FreeSeq)
              IN  /\ TableConsistent' <=> inside
                  /\ inside => /\ FreeSeq' = Append(Remove(FreeSeq, ret'.arg), ret'.arg)
                               /\ ActiveSeq' = ActiveSeq
      ]_vars

\* A connection has been released a second time and the table is
\* consistent.
C19_Witness ==
    /\ ret.op = "free again"
    /\ TableConsistent
    /\ Last(FreeSeq) = ret.arg

\* C14: ieee802154_alloc returns the head of the free queue, takes it off
\* that queue and appends it to the tail of the active queue; the first
\* CONFIG_NET_IEEE802154_NCONNS calls after ieee802154_initialize return the
\* slots in the order of the array; ieee802154_free appends the slot to the
\* tail of the free queue behind every slot already there, so that each of
\* those is allocated before it.
C14_FifoAllocation ==
    [][ /\ ret'.op = "alloc" =>
              /\ ret'.val = (IF FreeSeq = <<>> THEN NULL ELSE Head(FreeSeq))
              /\ ret'.val # NULL =>
                    /\ FreeSeq' = Tail(FreeSeq)
                    /\ ActiveSeq' = Append(ActiveSeq, ret'.val)
              /\ (run.phase = "fill" /\ run.n < CONFIG_NET_IEEE802154_NCONNS)
                    => ret'.val = run.n
        /\ Released =>
              /\ FreeSeq' = Append(FreeSeq, ret'.arg)
              /\ \A i \in 1 .. Len(FreeSeq) : FreeSeq'[i] = FreeSeq[i]
      ]_vars

\* Slot 0 was released while other slots were free, and it has been
\* allocated again as the last of all slots.
C14_Witness ==
    /\ ret.op = "alloc" /\ ret.val = 0
    /\ Len(handles) = CONFIG_NET_IEEE802154_NCONNS
    /\ Last(handles) = 0
    /\ CONFIG_NET_IEEE802154_NCONNS > 1

\* C15: a call of ieee802154_alloc with an empty free queue can be made and
\* returns (it does not wait for a slot), returns NULL, leaves the
\* connections and both queues as they were and the semaphore given; the
\* call of ieee802154_alloc that follows a release returns a connection.
C15_Exhaustion ==
    [][ /\ (started /\ ~ halted /\ FreeSeq = <<>>) => ENABLED ieee802154_alloc
        /\ (ret'.op = "alloc" /\ FreeSeq = <<>>) =>
              /\ ret'.val = NULL
              /\ g_ieee802154_connections' = g_ieee802154_connections
              /\ FreeSeq' = FreeSeq /\ ActiveSeq' = ActiveSeq
              /\ g_free_sem' = 1
              /\ ~ halted'
        /\ (ret'.op = "alloc" /\ ret.op = "free" /\ ~ halted) => ret'.val # NULL
      ]_vars

\* A call of ieee802154_alloc has returned NULL, after connections were
\* released and allocated again, and the semaphore is given.
C15_Witness ==
    /\ ret.op = "alloc" /\ ret.val = NULL
    /\ FreeSeq = <<>> /\ g_free_sem = 1
    /\ handles # [i \in 1 .. CONFIG_NET_IEEE802154_NCONNS |-> i - 1]

\* The frame with another source address.
WithSrc(meta, src) == [meta EXCEPT !.src = src]

C18_ReadOnly ==
    [][ ret'.op \in {"active", "nextconn"} => UNCHANGED TableState ]_vars

\* A lookup has returned a connection while another one was active too.
C18_Witness ==
    /\ ret.op = "active" /\ ret.val # NULL
    /\ Len(ActiveSeq) >= 2

(***************************************************************************)
(* The semaphore of the queues                                             *)
(***************************************************************************)
InCritical(t) == pc[t] \in CriticalLabels

\* C20: every call of ieee802154_alloc and ieee802154_free returns, for
\* any scheduling that is fair and with finitely many interrupted waits;
\* the semaphore is given on every path, so it is free (1) whenever no
\* thread is between semtake and semgive.
C20_CallsReturn ==
    /\ [](started => ((\A t \in Threads : ~ InCritical(t)) <=> g_free_sem = 1))
    /\ \A t \in Threads : (pc[t] # "idle") ~> (pc[t] = "idle")

\* A call of ieee802154_alloc that found the free queue empty, and whose
\* wait for the semaphore was interrupted, is about to give the semaphore.
C20_Witness ==
    \E t \in Threads :
      /\ pc[t] = "alloc: semgive" /\ tconn[t] = NULL
      /\ eintr > 0
      /\ \E u \in Threads : pc[u] \in SemtakeLabels

\* The handles that are out or that a call of ieee802154_alloc is about to
\* return, one entry for each.
HandedOut ==
    handles \o SelectSeq([i \in 1 .. NThreads |-> IF pc[i] = "alloc: semgive"
                                                  THEN tconn[i] ELSE NULL],
                         LAMBDA h : h # NULL)

\* C13: at most one thread is between semtake and semgive, and it has the
\* semaphore; a wait that a signal interrupts leaves the thread waiting in
\* semtake, outside the critical section and inside its call;
\* ieee802154_alloc returns NULL only when the free queue is empty; no
\* connection is handed out twice.
C13_MutualExclusion ==
    /\ [](/\ Cardinality({t \in Threads : InCritical(t)}) <= 1
          /\ (\E t \in Threads : InCritical(t)) => g_free_sem = 0
          /\ \A i, j \in 1 .. Len(HandedOut) : i # j => HandedOut[i] # HandedOut[j])
    /\ [][ /\ eintr' # eintr =>
                 \A t \in Threads :
                   /\ pc'[t] = pc[t]
                   /\ InCritical(t)' => g_free_sem' = 0
           /\ \A t \in Threads :
                 (pc[t] = "alloc: semgive" /\ pc'[t] = "idle" /\ tconn[t] = NULL)
                   => FreeSeq = <<>>
         ]_vars

\* A thread is in the critical section, another one waits in semtake and
\* its wait was interrupted.
C13_Witness ==
    /\ eintr > 0
    /\ \E t, u \in Threads :
          /\ InCritical(t)
          /\ pc[u] \in SemtakeLabels

\* C12: while a thread holds the network lock for its traversal, no step
\* of another thread in ieee802154_alloc or ieee802154_free changes the
\* active queue: neither the connections on it and their order nor its
\* head, its tail and the links of the connections.
C12_NetLockProtects ==
    [][ (g_netlock # NoThread /\ g_netlock' = g_netlock) =>
          /\ ActiveSeq' = ActiveSeq
          /\ g_active_ieee802154_connections' = g_active_ieee802154_connections
          /\ \A c \in ActiveSet :
                /\ Conn(c)'.flink = Conn(c).flink
                /\ Conn(c)'.blink = Conn(c).blink
      ]_vars

====
